---- MODULE Spec2Model ----
(***************************************************************************)
(* Model of pkg/api/agentPoolOnlyApi/v20170831/validate.go: the validation *)
(* of an agent-pool-only cluster definition.                               *)
(*                                                                         *)
(* Go strings that the code inspects character by character (pool names,   *)
(* validator namespaces, key data) are sequences of one-character strings. *)
(* A vnetSubnetID is the sequence of its "/"-separated path segments; the  *)
(* empty sequence is the empty string.                                     *)
(* An error value is a record [panic, fmt, args]: fmt is the format string *)
(* handed to errors.Errorf / errors.New and args the rendered operands.    *)
(* A run-time panic is the record with panic = TRUE.                       *)
(***************************************************************************)
EXTENDS Integers, Sequences, FiniteSets, TLC

VARIABLES pc, e, poolName, props, result, i, stagesRun, vnet

vars == <<pc, e, poolName, props, result, i, stagesRun, vnet>>

(***************************************************************************)
(* Bounds of the explored inputs.                                          *)
(***************************************************************************)
MaxViolations == 2
MaxPad == 10
MaxProfiles == 4
MaxVNETPools == 3
MaxPools == 2
MaxKeys == 3

(***************************************************************************)
(* Error values.                                                           *)
(***************************************************************************)
Nil == [panic |-> FALSE, fmt |-> "<nil>", args |-> <<>>]

Errorf(format, args) == [panic |-> FALSE, fmt |-> format, args |-> args]

Panic(what) == [panic |-> TRUE, fmt |-> what, args |-> <<>>]

(***************************************************************************)
(* strings.HasPrefix / strings.HasSuffix                                   *)
(***************************************************************************)
HasPrefix(s, prefix) ==
    /\ Len(s) >= Len(prefix)
    /\ SubSeq(s, 1, Len(prefix)) = prefix

HasSuffix(s, suffix) ==
    /\ Len(s) >= Len(suffix)
    /\ SubSeq(s, Len(s) - Len(suffix) + 1, Len(s)) = suffix

(***************************************************************************)
(* fmt's %d: the decimal digits of an integer.                             *)
(***************************************************************************)
DigitChars == <<"0", "1", "2", "3", "4", "5", "6", "7", "8", "9">>

RECURSIVE FormatNat(_)
FormatNat(n) ==
    IF n < 10 THEN <<DigitChars[n + 1]>>
    ELSE FormatNat(n \div 10) \o <<DigitChars[(n % 10) + 1]>>

FormatInt(n) == IF n < 0 THEN <<"-">> \o FormatNat(0 - n) ELSE FormatNat(n)

(***************************************************************************)
(* Namespaces and suffixes named by handleValidationErrors.                *)
(***************************************************************************)
NsClientID ==
    <<"P","r","o","p","e","r","t","i","e","s",".","S","e","r","v","i","c","e","P","r","i","n","c","i","p","a","l","P","r","o","f","i","l","e",".","C","l","i","e","n","t","I","D">>
NsSecret ==
    <<"P","r","o","p","e","r","t","i","e","s",".","S","e","r","v","i","c","e","P","r","i","n","c","i","p","a","l","P","r","o","f","i","l","e",".","S","e","c","r","e","t">>
NsAdminUsername ==
    <<"P","r","o","p","e","r","t","i","e","s",".","W","i","n","d","o","w","s","P","r","o","f","i","l","e",".","A","d","m","i","n","U","s","e","r","n","a","m","e">>
NsAdminPassword ==
    <<"P","r","o","p","e","r","t","i","e","s",".","W","i","n","d","o","w","s","P","r","o","f","i","l","e",".","A","d","m","i","n","P","a","s","s","w","o","r","d">>
AgentPoolProfilesPrefix ==
    <<"P","r","o","p","e","r","t","i","e","s",".","A","g","e","n","t","P","o","o","l","P","r","o","f","i","l","e","s">>
SuffixName ==
    <<".","N","a","m","e">>
SuffixVMSize ==
    <<"V","M","S","i","z","e">>
SuffixCount ==
    <<".","C","o","u","n","t">>
SuffixOSDiskSizeGB ==
    <<".","O","S","D","i","s","k","S","i","z","e","G","B">>
SuffixStorageProfile ==
    <<".","S","t","o","r","a","g","e","P","r","o","f","i","l","e">>

ExactMissingNamespaces == {NsClientID, NsSecret, NsAdminUsername, NsAdminPassword}

(***************************************************************************)
(* Constants of the package that the messages render (declared in the      *)
(* package's const.go); kept symbolic.                                     *)
(***************************************************************************)
MinAgentCount == <<"MinAgentCount">>
MaxAgentCount == <<"MaxAgentCount">>
MinDiskSizeGB == <<"MinDiskSizeGB">>
MaxDiskSizeGB == <<"MaxDiskSizeGB">>
ManagedDisks == <<"ManagedDisks">>

(***************************************************************************)
(* A violation (validator.FieldError) is [ns, value]; value is the         *)
(* dynamically typed err.Value(): [type, int, str].                        *)
(***************************************************************************)
IntValue(n) == [type |-> "int", int |-> n, str |-> <<>>]
StringValue(s) == [type |-> "string", int |-> 0, str |-> s]
NilValue == [type |-> "nil", int |-> 0, str |-> <<>>]

(***************************************************************************)
(* %+v of a validator.ValidationErrors: its Error() text, which carries    *)
(* one line per violation, each naming that violation's namespace.         *)
(***************************************************************************)
RECURSIVE FormatValidationErrors(_)
FormatValidationErrors(errs) ==
    IF errs = <<>> THEN <<>>
    ELSE Head(errs).ns \o <<"\n">> \o FormatValidationErrors(Tail(errs))

MissingFmt == "missing %s"
CountFmt == "AgentPoolProfile count needs to be in the range [%d,%d]"
OSDiskFmt == "Invalid os disk size of %d specified.  The range of valid values are [%d, %d]"
StorageProfileFmt == "Unknown storageProfile '%s'. Must specify %s"
NotCaughtFmt == "Namespace %s is not caught, %+v"

NotCaught(ns, errs) == Errorf(NotCaughtFmt, <<ns, FormatValidationErrors(errs)>>)

(* the inner switch of handleValidationErrors: first matching case wins *)
AgentPoolCase(err, ns, errs) ==
    IF HasSuffix(ns, SuffixName) \/ HasSuffix(ns, SuffixVMSize)
    THEN Errorf(MissingFmt, <<ns>>)
    ELSE IF HasSuffix(ns, SuffixCount)
    THEN Errorf(CountFmt, <<MinAgentCount, MaxAgentCount>>)
    ELSE IF HasSuffix(ns, SuffixOSDiskSizeGB)
    THEN IF err.value.type = "int"
         THEN Errorf(OSDiskFmt, <<FormatInt(err.value.int), MinDiskSizeGB, MaxDiskSizeGB>>)
         ELSE Panic("interface conversion: interface {} is not int")
    ELSE IF HasSuffix(ns, SuffixStorageProfile)
    THEN IF err.value.type = "string"
         THEN Errorf(StorageProfileFmt, <<err.value.str, ManagedDisks>>)
         ELSE Panic("interface conversion: interface {} is not string")
    ELSE NotCaught(ns, errs)

(* variant: the last violation is classified instead of the first *)
handleValidationErrors_Last(errs) ==
    LET err == errs[Len(errs)]
        ns == err.ns
    IN  IF ns \in ExactMissingNamespaces
        THEN Errorf(MissingFmt, <<ns>>)
        ELSE IF HasPrefix(ns, AgentPoolProfilesPrefix)
        THEN AgentPoolCase(err, ns, errs)
        ELSE NotCaught(ns, errs)

handleValidationErrors(errs) ==
    LET err == errs[1]
        ns == err.ns
    IN  IF ns \in ExactMissingNamespaces
        THEN Errorf(MissingFmt, <<ns>>)
        ELSE IF HasPrefix(ns, AgentPoolProfilesPrefix)
        THEN AgentPoolCase(err, ns, errs)
        ELSE NotCaught(ns, errs)

(***************************************************************************)
(* validatePoolName: regexp ^([a-z][a-z0-9]{0,11})$ matched against the    *)
(* whole text (Go's $ without the m flag matches only at end of text).     *)
(***************************************************************************)
LowerLetters ==
    {"a","b","c","d","e","f","g","h","i","j","k","l","m",
     "n","o","p","q","r","s","t","u","v","w","x","y","z"}

Digits == {"0","1","2","3","4","5","6","7","8","9"}

MaxRepeat == 11

(* [a-z0-9]{0,11}$ from position k, having consumed n repetitions *)
(* variant: the repetition is not bounded, as in [a-z0-9]* *)
RECURSIVE MatchRepeat_Unbounded(_, _, _)
MatchRepeat_Unbounded(s, k, n) ==
    IF k > Len(s) THEN TRUE
    ELSE IF s[k] \in LowerLetters \cup Digits THEN MatchRepeat_Unbounded(s, k + 1, n + 1)
    ELSE FALSE

RECURSIVE MatchRepeat(_, _, _)
MatchRepeat(s, k, n) ==
    IF k > Len(s) THEN TRUE
    ELSE IF n >= MaxRepeat THEN FALSE
    ELSE IF s[k] \in LowerLetters \cup Digits THEN MatchRepeat(s, k + 1, n + 1)
    ELSE FALSE

MatchPoolNameRegex(s) ==
    /\ Len(s) >= 1
    /\ s[1] \in LowerLetters
    /\ MatchRepeat(s, 2, 0)

(* re.FindStringSubmatch: nil, or the whole match followed by group 1 *)
FindStringSubmatch(s) == IF MatchPoolNameRegex(s) THEN <<s, s>> ELSE <<>>

PoolNameFmt == "pool name '%s' is invalid. A pool name must start with a lowercase letter, have max length of 12, and only have characters a-z0-9"

validatePoolName(name) ==
    LET submatches == FindStringSubmatch(name)
    IN  IF Len(submatches) # 2
        THEN Errorf(PoolNameFmt, <<name>>)
        ELSE Nil

AgentPoolProfileValidate(a) == validatePoolName(a.Name)

(***************************************************************************)
(* validateUniqueProfileNames: the loop over profiles from position k with *)
(* the map profileNames holding the names seen so far.                     *)
(***************************************************************************)
UniqueFmt == "profile name '%s' already exists, profile names must be unique across pools"

(* variant: the names seen are not recorded *)
RECURSIVE UniqueLoop_NoRecord(_, _, _)
UniqueLoop_NoRecord(profiles, k, profileNames) ==
    IF k > Len(profiles) THEN Nil
    ELSE IF profiles[k].Name \in profileNames
    THEN Errorf(UniqueFmt, <<profiles[k].Name>>)
    ELSE UniqueLoop_NoRecord(profiles, k + 1, profileNames)

RECURSIVE UniqueLoop(_, _, _)
UniqueLoop(profiles, k, profileNames) ==
    IF k > Len(profiles) THEN Nil
    ELSE IF profiles[k].Name \in profileNames
    THEN Errorf(UniqueFmt, <<profiles[k].Name>>)
    ELSE UniqueLoop(profiles, k + 1, profileNames \cup {profiles[k].Name})

validateUniqueProfileNames(profiles) == UniqueLoop(profiles, 1, {})

(***************************************************************************)
(* LinuxProfile.Validate.  validate.Var(x, "required") fails exactly on    *)
(* the zero value of x, the empty string.                                  *)
(***************************************************************************)
KeyDataMsg == "KeyData in LinuxProfile.SSH.PublicKeys cannot be empty string"

ValidateVarRequired(x) == IF x = <<>> THEN Errorf("required", <<>>) ELSE Nil

LinuxProfileValidate(l) ==
    IF Len(l.PublicKeys) = 0
    THEN Panic("index out of range [0] with length 0")
    ELSE IF ValidateVarRequired(l.PublicKeys[1].KeyData) # Nil
    THEN Errorf(KeyDataMsg, <<>>)
    ELSE Nil

(***************************************************************************)
(* Collaborators of the package that validateVNET and Validate call.       *)
(***************************************************************************)
IsCustomVNET(agentPool) == Len(agentPool.VnetSubnetID) > 0

IsDecomposable(id) ==
    /\ Len(id) = 10
    /\ id[1] = "subscriptions"
    /\ id[3] = "resourceGroups"
    /\ id[5] = "providers"
    /\ id[6] = "Microsoft.Network"
    /\ id[7] = "virtualNetworks"
    /\ id[9] = "subnets"

GetVNETSubnetIDComponents(id) ==
    IF IsDecomposable(id)
    THEN [subID |-> id[2], rg |-> id[4], vnetName |-> id[8], subnet |-> id[10],
          err |-> Nil]
    ELSE [subID |-> "", rg |-> "", vnetName |-> "", subnet |-> "",
          err |-> Errorf("Unable to parse vnetSubnetID. Please use a vnetSubnetID with format /subscriptions/SUB_ID/resourceGroups/RG_NAME/providers/Microsoft.Network/virtualNetworks/VNET_NAME/subnets/SUBNET_NAME", <<>>)]

ValidateDNSPrefix(dnsPrefix) ==
    IF dnsPrefix = "invalid"
    THEN Errorf("DNS name '%s' is invalid", <<<<dnsPrefix>>>>)
    ELSE Nil

(***************************************************************************)
(* validateVNET.  A Go map[string]int is a function on its key set; a      *)
(* missing key reads as 0.                                                 *)
(***************************************************************************)
EmptyMap == [k \in {} |-> 0]

MapGet(m, k) == IF k \in DOMAIN m THEN m[k] ELSE 0

(* variant: the count is set to 1 instead of incremented *)
MapPut_One(m, k, v) == [x \in DOMAIN m \cup {k} |-> IF x = k THEN 1 ELSE m[x]]

MapPut(m, k, v) == [x \in DOMAIN m \cup {k} |-> IF x = k THEN v ELSE m[x]]

MultipleVNETMsg == "Multiple VNET Subnet configurations specified.  Each agent pool profile must all specify a custom VNET Subnet, or none at all"

(* first loop: [customVNETCount, isCustomVNET] after the pools from k on *)
RECURSIVE CountLoop(_, _, _, _)
CountLoop(pools, k, customVNETCount, isCustomVNET) ==
    IF k > Len(pools)
    THEN [customVNETCount |-> customVNETCount, isCustomVNET |-> isCustomVNET]
    ELSE IF IsCustomVNET(pools[k])
    THEN CountLoop(pools, k + 1, customVNETCount + 1, IsCustomVNET(pools[k]))
    ELSE CountLoop(pools, k + 1, customVNETCount, isCustomVNET)

(* variant of the second loop: a decomposition failure is remembered but   *)
(* the loop goes on to the next pool                                       *)
RECURSIVE DecomposeLoop_Continue(_, _, _)
DecomposeLoop_Continue(pools, k, st) ==
    IF k > Len(pools) THEN st
    ELSE LET c == GetVNETSubnetIDComponents(pools[k].VnetSubnetID)
             called == Append(st.decomposed, pools[k].VnetSubnetID)
         IN  IF c.err # Nil
             THEN DecomposeLoop_Continue(pools, k + 1,
                    [st EXCEPT !.err = c.err, !.decomposed = called])
             ELSE DecomposeLoop_Continue(pools, k + 1,
                    [st EXCEPT !.decomposed = called])

(* second loop: decompose the pools from k on, counting the components *)
RECURSIVE DecomposeLoop(_, _, _)
DecomposeLoop(pools, k, st) ==
    IF k > Len(pools) THEN st
    ELSE LET c == GetVNETSubnetIDComponents(pools[k].VnetSubnetID)
             called == Append(st.decomposed, pools[k].VnetSubnetID)
         IN  IF c.err # Nil
             THEN [st EXCEPT !.err = c.err, !.decomposed = called]
             ELSE DecomposeLoop(pools, k + 1,
                    [st EXCEPT
                       !.decomposed = called,
                       !.subIDMap = MapPut(@, c.subID, MapGet(@, c.subID) + 1),
                       !.resourceGroupMap = MapPut(@, c.rg, MapGet(@, c.rg) + 1),
                       !.agentVNETMap = MapPut(@, c.vnetName, MapGet(@, c.vnetName) + 1)])

VNETLocals0 ==
    [err |-> Nil, customVNETCount |-> 0, isCustomVNET |-> FALSE,
     subIDMap |-> EmptyMap, resourceGroupMap |-> EmptyMap,
     agentVNETMap |-> EmptyMap, decomposed |-> <<>>]

(* variant: only "every pool is custom" passes the all-or-nothing check *)
validateVNET_AllOnly(a) ==
    LET pools == a.AgentPoolProfiles
        c == CountLoop(pools, 1, 0, FALSE)
        st == [VNETLocals0 EXCEPT !.customVNETCount = c.customVNETCount,
                                  !.isCustomVNET = c.isCustomVNET]
    IN  IF ~(c.customVNETCount = Len(pools))
        THEN [st EXCEPT !.err = Errorf(MultipleVNETMsg, <<>>)]
        ELSE IF c.isCustomVNET
        THEN DecomposeLoop(pools, 1, st)
        ELSE st

(* the outcome of validateVNET together with its locals at return *)
validateVNET(a) ==
    LET pools == a.AgentPoolProfiles
        c == CountLoop(pools, 1, 0, FALSE)
        st == [VNETLocals0 EXCEPT !.customVNETCount = c.customVNETCount,
                                  !.isCustomVNET = c.isCustomVNET]
    IN  IF ~(c.customVNETCount = 0 \/ c.customVNETCount = Len(pools))
        THEN [st EXCEPT !.err = Errorf(MultipleVNETMsg, <<>>)]
        ELSE IF c.isCustomVNET
        THEN DecomposeLoop(pools, 1, st)
        ELSE st

(***************************************************************************)
(* Inputs.                                                                 *)
(***************************************************************************)
SeqsUpTo(S, n) == UNION {[1..k -> S] : k \in 0..n}

RECURSIVE Repeat(_, _)
Repeat(c, n) == IF n = 0 THEN <<>> ELSE <<c>> \o Repeat(c, n - 1)

Pool0 == AgentPoolProfilesPrefix \o <<"[","0","]">>
Pool2 == AgentPoolProfilesPrefix \o <<"[","2","]">>

Namespaces ==
    ExactMissingNamespaces
    \cup {Pool0 \o SuffixName,
          Pool0 \o <<".">> \o SuffixVMSize,
          Pool0 \o SuffixCount,
          Pool2 \o SuffixCount,
          Pool0 \o SuffixOSDiskSizeGB,
          Pool0 \o SuffixStorageProfile,
          Pool0 \o <<".","D","N","S","P","r","e","f","i","x">>,
          Pool0 \o <<".","M","a","x">> \o SuffixVMSize,
          <<"P","r","o","p","e","r","t","i","e","s",".","D","N","S","P","r","e","f","i","x">>,
          <<"P","r","o","p","e","r","t","i","e","s",".","M","a","s","t","e","r">> \o SuffixCount,
          <<"P","r","o","p","e","r","t","i","e","s",".","L","i","n","u","x">> \o SuffixName}

Values == {IntValue(5000), StringValue(<<"E","p","h","e","m","e","r","a","l">>), NilValue}

Violations == [ns : Namespaces, value : Values]

ViolationLists == SeqsUpTo(Violations, MaxViolations) \ {<<>>}

NameChars == {"a", "z", "0", "9", "A", "-", "\n"}

NameInputs ==
    {h \o Repeat("a", n) \o t :
        h \in SeqsUpTo(NameChars, 2), n \in 0..MaxPad, t \in SeqsUpTo(NameChars, 1)}

Pool(name, id) == [Name |-> name, VnetSubnetID |-> id]

SubnetID(sub, rg, vn) ==
    <<"subscriptions", sub, "resourceGroups", rg, "providers",
      "Microsoft.Network", "virtualNetworks", vn, "subnets", "default">>

VnetSubnetIDs ==
    {<<>>, <<"subscriptions", "s1">>, <<"not", "a", "subnet", "id">>}
    \cup {SubnetID(sub, rg, vn) : sub \in {"s1", "s2"}, rg \in {"g1", "g2"},
                                  vn \in {"v1", "v2"}}

NoLinuxProfile == [present |-> FALSE, PublicKeys |-> <<>>]

LinuxProfile(keys) == [present |-> TRUE, PublicKeys |-> keys]

KeyDatas == {<<>>, <<" ">>, <<"k">>, <<"s","s","h","-","r","s","a">>}

Props(dns, pools, linux) ==
    [DNSPrefix |-> dns, AgentPoolProfiles |-> pools, LinuxProfile |-> linux]

Props0 == Props("valid", <<>>, NoLinuxProfile)

(***************************************************************************)
(* Return from the function under execution: with an error value (or nil), *)
(* or by a panic that unwinds it.                                          *)
(***************************************************************************)
Return(o) ==
    /\ pc' = IF o.panic THEN "panic" ELSE "done"
    /\ result' = o

Ran(stage, idx) == stagesRun' = Append(stagesRun, [stage |-> stage, idx |-> idx])

(***************************************************************************)
(* Properties.Validate, one action per stage.                              *)
(***************************************************************************)
StructStage ==
    /\ pc = "struct"
    /\ Ran("struct", 0)
    /\ IF e # <<>>
       THEN Return(handleValidationErrors(e))
       ELSE pc' = "dns" /\ UNCHANGED result
    /\ UNCHANGED <<e, poolName, props, i, vnet>>

DNSStage ==
    /\ pc = "dns"
    /\ Ran("dns", 0)
    /\ LET err == ValidateDNSPrefix(props.DNSPrefix)
       IN  IF err # Nil
           THEN Return(err)
           ELSE pc' = "unique" /\ UNCHANGED result
    /\ UNCHANGED <<e, poolName, props, i, vnet>>

UniqueStage ==
    /\ pc = "unique"
    /\ Ran("unique", 0)
    /\ LET err == validateUniqueProfileNames(props.AgentPoolProfiles)
       IN  IF err # Nil
           THEN Return(err) /\ UNCHANGED i
           ELSE pc' = "names" /\ i' = 1 /\ UNCHANGED result
    /\ UNCHANGED <<e, poolName, props, vnet>>

(* variant: a pool-name failure does not end the loop *)
NameStage_IgnoreError ==
    /\ pc = "names"
    /\ i <= Len(props.AgentPoolProfiles)
    /\ Ran("name", i)
    /\ i' = i + 1
    /\ UNCHANGED <<pc, result>>
    /\ UNCHANGED <<e, poolName, props, vnet>>

NameStage ==
    /\ pc = "names"
    /\ i <= Len(props.AgentPoolProfiles)
    /\ Ran("name", i)
    /\ LET err == AgentPoolProfileValidate(props.AgentPoolProfiles[i])
       IN  IF err # Nil
           THEN Return(err) /\ UNCHANGED i
           ELSE i' = i + 1 /\ UNCHANGED <<pc, result>>
    /\ UNCHANGED <<e, poolName, props, vnet>>

NamesDone ==
    /\ pc = "names"
    /\ i > Len(props.AgentPoolProfiles)
    /\ pc' = "linux"
    /\ UNCHANGED <<e, poolName, props, result, i, stagesRun, vnet>>

LinuxStage ==
    /\ pc = "linux"
    /\ IF props.LinuxProfile.present
       THEN /\ Ran("linux", 0)
            /\ LET err == LinuxProfileValidate(props.LinuxProfile)
               IN  IF err # Nil
                   THEN Return(err)
                   ELSE pc' = "vnet" /\ UNCHANGED result
       ELSE pc' = "vnet" /\ UNCHANGED <<result, stagesRun>>
    /\ UNCHANGED <<e, poolName, props, i, vnet>>

VNETStage ==
    /\ pc = "vnet"
    /\ Ran("vnet", 0)
    /\ vnet' = validateVNET(props)
    /\ Return(vnet'.err)
    /\ UNCHANGED <<e, poolName, props, i>>

(***************************************************************************)
(* Direct calls of the package's other functions.                          *)
(***************************************************************************)
CallHandleValidationErrors ==
    /\ pc = "handleValidationErrors"
    /\ Return(handleValidationErrors(e))
    /\ UNCHANGED <<e, poolName, props, i, stagesRun, vnet>>

CallValidatePoolName ==
    /\ pc = "validatePoolName"
    /\ Return(validatePoolName(poolName))
    /\ UNCHANGED <<e, poolName, props, i, stagesRun, vnet>>

CallValidateUniqueProfileNames ==
    /\ pc = "validateUniqueProfileNames"
    /\ Return(validateUniqueProfileNames(props.AgentPoolProfiles))
    /\ UNCHANGED <<e, poolName, props, i, stagesRun, vnet>>

CallLinuxProfileValidate ==
    /\ pc = "LinuxProfile.Validate"
    /\ Return(LinuxProfileValidate(props.LinuxProfile))
    /\ UNCHANGED <<e, poolName, props, i, stagesRun, vnet>>

CallValidateVNET ==
    /\ pc = "validateVNET"
    /\ vnet' = validateVNET(props)
    /\ Return(vnet'.err)
    /\ UNCHANGED <<e, poolName, props, i, stagesRun>>

(***************************************************************************)
(* Specifications.                                                         *)
(***************************************************************************)
Idle ==
    /\ result = Nil
    /\ i = 0
    /\ stagesRun = <<>>
    /\ vnet = VNETLocals0

(* the outcomes of validate.Struct explored with Properties.Validate *)
StructOutcomes ==
    {<<>>,
     <<[ns |-> NsClientID, value |-> StringValue(<<>>)]>>,
     <<[ns |-> Pool0 \o SuffixOSDiskSizeGB, value |-> IntValue(5000)],
       [ns |-> Pool0 \o SuffixCount, value |-> IntValue(0)]>>,
     <<[ns |-> Pool0 \o SuffixOSDiskSizeGB, value |-> NilValue]>>}

ValidatePools ==
    {Pool(n, id) : n \in {<<"a">>, <<"b","1">>, <<"B">>},
                   id \in {<<>>, SubnetID("s1", "g1", "v1"), <<"subscriptions", "s1">>}}

Init ==
    /\ pc = "struct"
    /\ e \in StructOutcomes
    /\ poolName = <<>>
    /\ props \in {Props(d, pools, l) :
                    d \in {"valid", "invalid"},
                    pools \in SeqsUpTo(ValidatePools, MaxPools),
                    l \in {NoLinuxProfile} \cup
                          {LinuxProfile(k) : k \in SeqsUpTo([KeyData : {<<>>, <<"k">>}], 1)}}
    /\ Idle

Next ==
    \/ StructStage
    \/ DNSStage
    \/ UniqueStage
    \/ NameStage
    \/ NamesDone
    \/ LinuxStage
    \/ VNETStage

Spec == Init /\ [][Next]_vars

InitClassify ==
    /\ pc = "handleValidationErrors"
    /\ e \in ViolationLists
    /\ poolName = <<>>
    /\ props = Props0
    /\ Idle

NextClassify == CallHandleValidationErrors

SpecClassify == InitClassify /\ [][NextClassify]_vars

InitName ==
    /\ pc = "validatePoolName"
    /\ e = <<>>
    /\ poolName \in NameInputs
    /\ props = Props0
    /\ Idle

NextName == CallValidatePoolName

SpecName == InitName /\ [][NextName]_vars

InitUnique ==
    /\ pc = "validateUniqueProfileNames"
    /\ e = <<>>
    /\ poolName = <<>>
    /\ props \in {Props("valid", pools, NoLinuxProfile) :
                    pools \in SeqsUpTo({Pool(n, <<>>) : n \in {<<"a">>, <<"b">>, <<"c">>}},
                                       MaxProfiles)}
    /\ Idle

NextUnique == CallValidateUniqueProfileNames

SpecUnique == InitUnique /\ [][NextUnique]_vars

InitLinux ==
    /\ pc = "LinuxProfile.Validate"
    /\ e = <<>>
    /\ poolName = <<>>
    /\ props \in {Props("valid", <<>>, LinuxProfile(k)) :
                    k \in SeqsUpTo([KeyData : KeyDatas], MaxKeys)}
    /\ Idle

NextLinux == CallLinuxProfileValidate

SpecLinux == InitLinux /\ [][NextLinux]_vars

InitVNET ==
    /\ pc = "validateVNET"
    /\ e = <<>>
    /\ poolName = <<>>
    /\ props \in {Props("valid", pools, NoLinuxProfile) :
                    pools \in SeqsUpTo({Pool(<<"p">>, id) : id \in VnetSubnetIDs},
                                       MaxVNETPools)}
    /\ Idle

NextVNET == CallValidateVNET

SpecVNET == InitVNET /\ [][NextVNET]_vars

(***************************************************************************)
(* Properties checked.                                                     *)
(***************************************************************************)
Returned == pc \in {"done", "panic"}

Pools == props.AgentPoolProfiles

(* the stages of Properties.Validate in the documented order, each with    *)
(* the outcome it has on the configuration                                 *)
StagePlan ==
    <<[stage |-> "struct", idx |-> 0,
       out |-> IF e # <<>> THEN handleValidationErrors(e) ELSE Nil],
      [stage |-> "dns", idx |-> 0, out |-> ValidateDNSPrefix(props.DNSPrefix)],
      [stage |-> "unique", idx |-> 0, out |-> validateUniqueProfileNames(Pools)]>>
    \o [k \in 1..Len(Pools) |->
          [stage |-> "name", idx |-> k, out |-> validatePoolName(Pools[k].Name)]]
    \o (IF props.LinuxProfile.present
        THEN <<[stage |-> "linux", idx |-> 0,
                out |-> LinuxProfileValidate(props.LinuxProfile)]>>
        ELSE <<>>)
    \o <<[stage |-> "vnet", idx |-> 0, out |-> validateVNET(props).err]>>

Failing(plan) == {k \in 1..Len(plan) : plan[k].out # Nil}

(* number of stages that run: up to and including the first failing one *)
LastRun(plan) ==
    IF Failing(plan) = {} THEN Len(plan)
    ELSE CHOOSE k \in Failing(plan) : \A j \in Failing(plan) : k <= j

StageLabels(plan, n) == [k \in 1..n |-> [stage |-> plan[k].stage, idx |-> plan[k].idx]]

(* C1: Properties.Validate runs the stages struct, dns, unique, name of    *)
(* each pool in order, linux (if a Linux profile is present), vnet, in     *)
(* that order; it never runs a stage after the first failing one; what it  *)
(* returns is the outcome of the first failing stage, and nil only when    *)
(* every stage succeeds.                                                   *)
C1_StageOrder ==
    LET plan == StagePlan
        last == LastRun(plan)
    IN  /\ Len(stagesRun) <= last
        /\ stagesRun = StageLabels(plan, Len(stagesRun))
        /\ Returned => /\ Len(stagesRun) = last
                       /\ result = plan[last].out
        /\ (pc = "done" /\ result = Nil) => Failing(plan) = {}

C1_Witness ==
    /\ pc = "done"
    /\ result.fmt = MultipleVNETMsg
    /\ props.LinuxProfile.present
    /\ Len(stagesRun) = 7

CustomCount == Cardinality({k \in 1..Len(Pools) : Pools[k].VnetSubnetID # <<>>})

(* C2: validateVNET returns the "Multiple VNET Subnet configurations       *)
(* specified" error exactly when the number of pools with a non-empty      *)
(* vnetSubnetID is strictly between 0 and the number of pools, and then    *)
(* it has decomposed no subnet ID.                                         *)
C2_MixedIffError ==
    Returned =>
        /\ (result = Errorf(MultipleVNETMsg, <<>>))
              <=> (0 < CustomCount /\ CustomCount < Len(Pools))
        /\ (result = Errorf(MultipleVNETMsg, <<>>)) => vnet.decomposed = <<>>

C2_Witness ==
    /\ pc = "done"
    /\ result = Errorf(MultipleVNETMsg, <<>>)
    /\ Len(Pools) = 3
    /\ CustomCount = 1

Undecomposable == {k \in 1..Len(Pools) : GetVNETSubnetIDComponents(Pools[k].VnetSubnetID).err # Nil}

FirstUndecomposable == CHOOSE k \in Undecomposable : \A j \in Undecomposable : k <= j

(* C3: with at least one pool and every pool custom, validateVNET          *)
(* decomposes the subnet IDs in collection order, and at the first ID that *)
(* fails to decompose returns the decomposer's error and decomposes no     *)
(* later pool; with no custom pool it never calls the decomposer and       *)
(* returns nil.                                                            *)
C3_DecomposeFailFast ==
    Returned =>
        /\ (Len(Pools) >= 1 /\ CustomCount = Len(Pools)) =>
              IF Undecomposable = {}
              THEN vnet.decomposed = [k \in 1..Len(Pools) |-> Pools[k].VnetSubnetID]
              ELSE /\ vnet.decomposed =
                        [k \in 1..FirstUndecomposable |-> Pools[k].VnetSubnetID]
                   /\ result =
                        GetVNETSubnetIDComponents(Pools[FirstUndecomposable].VnetSubnetID).err
        /\ CustomCount = 0 => (vnet.decomposed = <<>> /\ result = Nil)

C3_Witness ==
    /\ pc = "done"
    /\ Len(Pools) = 3
    /\ CustomCount = 3
    /\ Undecomposable = {2, 3}
    /\ Len(vnet.decomposed) = 2
    /\ result # Nil

RECURSIVE SumOver(_, _)
SumOver(m, keys) ==
    IF keys = {} THEN 0
    ELSE LET k == CHOOSE x \in keys : TRUE
         IN  m[k] + SumOver(m, keys \ {k})

MapTotal(m) == SumOver(m, DOMAIN m)

(* C4: when every pool is custom and every subnet ID decomposes,           *)
(* validateVNET returns nil whatever the subscriptions, resource groups    *)
(* and network names are, and each of the three count maps totals the      *)
(* number of pools.                                                        *)
C4_IdentityNotEnforced ==
    (Returned /\ CustomCount = Len(Pools) /\ Undecomposable = {}) =>
        /\ result = Nil
        /\ MapTotal(vnet.subIDMap) = Len(Pools)
        /\ MapTotal(vnet.resourceGroupMap) = Len(Pools)
        /\ MapTotal(vnet.agentVNETMap) = Len(Pools)

C4_Witness ==
    /\ pc = "done"
    /\ result = Nil
    /\ Len(Pools) = 3
    /\ CustomCount = 3
    /\ Cardinality(DOMAIN vnet.subIDMap) = 2
    /\ Cardinality(DOMAIN vnet.resourceGroupMap) = 2
    /\ Cardinality(DOMAIN vnet.agentVNETMap) = 2

Duplicates == {k \in 1..Len(Pools) : \E j \in 1..(k - 1) : Pools[j].Name = Pools[k].Name}

(* C5: validateUniqueProfileNames returns nil exactly when the pool names  *)
(* are pairwise distinct, and otherwise its error names the name at the    *)
(* smallest position that repeats a name of an earlier position.           *)
C5_FirstDuplicate ==
    Returned =>
        /\ result = Nil <=> Duplicates = {}
        /\ Duplicates # {} =>
              LET first == CHOOSE k \in Duplicates : \A j \in Duplicates : k <= j
              IN  result = Errorf(UniqueFmt, <<Pools[first].Name>>)

C5_Witness ==
    /\ pc = "done"
    /\ Len(Pools) = 4
    /\ Duplicates = {3, 4}
    /\ Pools[3].Name = <<"b">>
    /\ Pools[4].Name = <<"a">>
    /\ result = Errorf(UniqueFmt, <<(<<"b">>)>>)

AcceptablePoolName(s) ==
    /\ Len(s) >= 1
    /\ Len(s) <= 12
    /\ s[1] \in LowerLetters
    /\ \A k \in 2..Len(s) : s[k] \in LowerLetters \cup Digits

(* C6: validatePoolName returns nil exactly for the strings of 1 to 12     *)
(* characters that start with a lowercase letter and continue with         *)
(* lowercase letters and digits only; for every other string it returns    *)
(* the error that names the string.                                        *)
C6_PoolNamePolicy ==
    Returned =>
        /\ pc = "done"
        /\ result = Nil <=> AcceptablePoolName(poolName)
        /\ ~AcceptablePoolName(poolName) => result = Errorf(PoolNameFmt, <<poolName>>)

C6_Witness ==
    /\ pc = "done"
    /\ Len(poolName) = 13
    /\ \A k \in 1..13 : poolName[k] \in LowerLetters
    /\ result = Errorf(PoolNameFmt, <<poolName>>)

FirstNs == e[1].ns

EndsWithAny(ns, suffixes) == \E x \in suffixes : HasSuffix(ns, x)

DotVMSize == <<".">> \o SuffixVMSize

(* C7: for a first violation under the agent-pool-profiles path, the       *)
(* "missing <namespace>" error is returned exactly when the namespace ends *)
(* with .Name or .VMSize, and a namespace ending with none of .Name,       *)
(* .VMSize, .Count, .OSDiskSizeGB, .StorageProfile gets the catch-all      *)
(* error with the namespace and the full violation set.                    *)
C7_MissingIffNameOrVMSize ==
    (Returned /\ HasPrefix(FirstNs, AgentPoolProfilesPrefix)) =>
        /\ (result = Errorf(MissingFmt, <<FirstNs>>))
              <=> EndsWithAny(FirstNs, {SuffixName, DotVMSize})
        /\ ~EndsWithAny(FirstNs, {SuffixName, DotVMSize, SuffixCount,
                                  SuffixOSDiskSizeGB, SuffixStorageProfile})
              => result = NotCaught(FirstNs, e)

(* C8 as claimed: two violation lists with the same first element give the *)
(* same error; equivalently, every list gives the error of the list that   *)
(* holds its first element alone.                                          *)
C8_RestDiscarded ==
    Returned => result = handleValidationErrors(<<e[1]>>)

(* C8: the first violation alone selects the message, and two lists with   *)
(* the same first element give the same outcome unless that element falls  *)
(* to the catch-all, whose text renders the namespace of every violation   *)
(* of the list.                                                            *)
C8_FirstDecides ==
    Returned =>
        LET single == handleValidationErrors(<<e[1]>>)
        IN  /\ result.fmt = single.fmt
            /\ result.panic = single.panic
            /\ result.fmt # NotCaughtFmt => result = single
            /\ result.fmt = NotCaughtFmt =>
                  result.args = <<FirstNs, FormatValidationErrors(e)>>

C8_Witness ==
    /\ pc = "done"
    /\ Len(e) = 2
    /\ e[1].ns = Pool0 \o SuffixCount
    /\ e[2].ns = Pool0 \o SuffixName
    /\ result = Errorf(CountFmt, <<MinAgentCount, MaxAgentCount>>)

Keys == props.LinuxProfile.PublicKeys

(* C9: LinuxProfile.Validate on an empty key list returns an error value   *)
(* and does not panic; on a non-empty list it returns the KeyData error    *)
(* exactly when the first key's key data is the empty string.              *)
C9_LinuxProfileCleanFailure ==
    Returned =>
        /\ Keys = <<>> => (pc = "done" /\ result # Nil)
        /\ Keys # <<>> =>
              (result = Errorf(KeyDataMsg, <<>>) <=> Keys[1].KeyData = <<>>)

(* C10: handleValidationErrors returns an error value and does not panic   *)
(* when the first violation's namespace ends with .OSDiskSizeGB and its    *)
(* value is not an int, or ends with .StorageProfile and its value is not  *)
(* a string.                                                               *)
C10_DefensiveOnTypeMismatch ==
    (/\ Returned
     /\ \/ HasSuffix(FirstNs, SuffixOSDiskSizeGB) /\ e[1].value.type # "int"
        \/ HasSuffix(FirstNs, SuffixStorageProfile) /\ e[1].value.type # "string")
    => (pc = "done" /\ result # Nil)

====
